---- MODULE Spec2Model ----
(***************************************************************************)
(* State-machine model of the randobites tiered restaurant cache:          *)
(*   services/sharedCacheService.ts  (grid key, shared bucket get / put)   *)
(*   services/restaurantService.ts   (local cache, fetch orchestrator)     *)
(*   services/blacklistService.ts    (shared + local blacklist, filter)    *)
(*                                                                         *)
(* Units.  Coordinates are integers counting 0.0001 degrees, so that       *)
(* 37.7749 is 377749; a grid index g stands for the float g * 0.01 the     *)
(* code stores (one float per index, so equality is preserved).  Time is   *)
(* counted in units of two hours, the largest unit in which both cache     *)
(* durations (2 h shared, 4 h local) are whole numbers.                    *)
(***************************************************************************)
EXTENDS Integers, Sequences, FiniteSets, TLC

VARIABLES
    now,            \* Date.now(), in time units
    supabase,       \* TRUE iff the supabase client is configured (non-null)
    apiKey,         \* TRUE iff GEOAPIFY_API_KEY is set
    cache,          \* table restaurant_cache: row id -> row
    localCache,     \* per device AsyncStorage cache entries: device -> key -> entry
    sharedBlacklist,\* table restaurant_blacklist: restaurant_id -> reports_count (0 = no row)
    localBlacklist, \* per device AsyncStorage blacklist: device -> sequence of ids
    proc,           \* per device: the setSharedCache call in flight (interleaved runs)
    last,           \* record of the operation that produced the current state
    quant           \* inputs and outputs of a getCacheGrid evaluation

vars == <<now, supabase, apiKey, cache, localCache, sharedBlacklist,
          localBlacklist, proc, last, quant>>

-----------------------------------------------------------------------------
(* Bounds of the model *)

MaxId == 3
MaxLen == 2
MaxTime == 2
MaxSample == 9
MaxCalls == 3
MaxFetches == 2
MaxReports == 2
MaxClock == 3

(* Program constants, in model units *)

SHARED_CACHE_DURATION == 1
CACHE_DURATION == 2
gridSize == 100

Devices == {"A", "B"}
Ids == 1..MaxId
\* A Place is identified by id; v stands for all its other (mutable) fields.
Variants == {"old", "new"}
Place == [id : Ids, v : Variants]

RECURSIVE SeqsUpTo(_, _)
SeqsUpTo(S, n) ==
    IF n = 0 THEN {<<>>}
    ELSE LET shorter == SeqsUpTo(S, n - 1)
         IN  shorter \cup {Append(s, x) : s \in {t \in shorter : Len(t) = n - 1}, x \in S}

\* The lists a caller can pass: one provider response (or cached copy of one) lists
\* up to MaxLen ids, possibly the same id twice, all read from one variant of the
\* provider's data.
Lists == {[i \in 1..Len(is) |-> [id |-> is[i], v |-> s]] :
             is \in SeqsUpTo(Ids, MaxLen), s \in Variants}

IdsOf(list) == {list[i].id : i \in 1..Len(list)}
ElemsOf(list) == {list[i] : i \in 1..Len(list)}
NoDuplicateIds(list) == \A i, j \in 1..Len(list) : list[i].id = list[j].id => i = j

\* A nullable list: Restaurant[] | null
Null == [present |-> FALSE, list |-> <<>>]
\* Which outside requests fail during one call: the provider request, the
\* statements on table restaurant_cache, the AsyncStorage cache entries, the
\* select on table restaurant_blacklist, the AsyncStorage blacklist entry.
Failures == [provider : BOOLEAN, sharedCache : BOOLEAN, localCache : BOOLEAN,
             sharedBlacklist : BOOLEAN, localBlacklist : BOOLEAN]
NoFailure == [provider |-> FALSE, sharedCache |-> FALSE, localCache |-> FALSE,
              sharedBlacklist |-> FALSE, localBlacklist |-> FALSE]

Some(list) == [present |-> TRUE, list |-> list]

-----------------------------------------------------------------------------
(* SharedCacheService.getCacheGrid *)

MathRoundDiv_Floor(x, d) == x \div d

\* Math.round(x / d) for integers x, d > 0: halves round towards +infinity.
MathRoundDiv(x, d) == (2 * x + d) \div (2 * d)

normalizeRadius_Strict(radiusInMeters) ==
    IF radiusInMeters < 3000 THEN 3000
    ELSE IF radiusInMeters < 5000 THEN 5000
    ELSE IF radiusInMeters < 8000 THEN 8000
    ELSE 10000

normalizeRadius(radiusInMeters) ==
    IF radiusInMeters <= 3000 THEN 3000
    ELSE IF radiusInMeters <= 5000 THEN 5000
    ELSE IF radiusInMeters <= 8000 THEN 8000
    ELSE 10000

getCacheGrid_Unrounded(location, radiusInMeters) ==
    [gridLat |-> location.latitude, gridLng |-> location.longitude,
     normalizedRadius |-> normalizeRadius(radiusInMeters)]

getCacheGrid(location, radiusInMeters) ==
    [gridLat |-> MathRoundDiv(location.latitude, gridSize),
     gridLng |-> MathRoundDiv(location.longitude, gridSize),
     normalizedRadius |-> normalizeRadius(radiusInMeters)]

\* The row id `${gridLat}_${gridLng}_${normalizedRadius}`
cacheId(location, radiusInMeters) ==
    LET g == getCacheGrid(location, radiusInMeters)
    IN  <<g.gridLat, g.gridLng, g.normalizedRadius>>

LocA == [latitude |-> 377749, longitude |-> -1224194]
LocB == [latitude |-> 377755, longitude |-> -1224190]
LocC == [latitude |-> 377742, longitude |-> -1224190]
Locations == {LocA, LocB, LocC}
Radii == {5000}
CacheIds == {cacheId(l, r) : l \in Locations, r \in Radii}

-----------------------------------------------------------------------------
(* The restaurant_cache table and SharedCacheService *)

NoRow == [exists |-> FALSE, restaurants |-> <<>>, contributors |-> 0, updated_at |-> 0]

\* select ... eq(grid_lat) eq(grid_lng) eq(radius_meters) order(updated_at) limit(1)
selectRow(c, location, radiusInMeters) == c[cacheId(location, radiusInMeters)]

isExpired_AtLimit(cacheRecord, t) == t - cacheRecord.updated_at >= SHARED_CACHE_DURATION

isExpired(cacheRecord, t) == t - cacheRecord.updated_at > SHARED_CACHE_DURATION

\* delete().eq('id', cacheId)
cleanupExpiredCache(c, id) == [c EXCEPT ![id] = NoRow]

\* Result of getSharedCache: the value returned and the table afterwards.
getSharedCache(c, sb, location, radiusInMeters, t, fail) ==
    IF ~sb THEN [ret |-> Null, cache |-> c]
    ELSE IF fail.sharedCache THEN [ret |-> Null, cache |-> c]   \* error / catch: null
    ELSE LET cacheRecord == selectRow(c, location, radiusInMeters)
         IN  IF ~cacheRecord.exists THEN [ret |-> Null, cache |-> c]
             ELSE IF isExpired(cacheRecord, t)
                  THEN [ret |-> Null,
                        cache |-> cleanupExpiredCache(c, cacheId(location, radiusInMeters))]
                  ELSE [ret |-> Some(cacheRecord.restaurants), cache |-> c]

mergeRestaurants_Append(existingData, restaurants) ==
    IF existingData.present /\ Len(existingData.list) > 0
    THEN [restaurants |-> existingData.list \o restaurants, contributors |-> 1 + 1]
    ELSE [restaurants |-> restaurants, contributors |-> 1]

mergeRestaurants_NoMerge(existingData, restaurants) ==
    [restaurants |-> restaurants,
     contributors |-> IF existingData.present /\ Len(existingData.list) > 0 THEN 2 ELSE 1]

\* The merge of setSharedCache: the list and the counter it is about to upsert.
mergeRestaurants(existingData, restaurants) ==
    IF existingData.present /\ Len(existingData.list) > 0
    THEN LET existingIds == IdsOf(existingData.list)
             newRestaurants == SelectSeq(restaurants, LAMBDA r : r.id \notin existingIds)
         IN  [restaurants |-> existingData.list \o newRestaurants, contributors |-> 1 + 1]
    ELSE [restaurants |-> restaurants, contributors |-> 1]

upsertRow_UpdateList(c, id, merged, t) ==
    IF c[id].exists
    THEN [c EXCEPT ![id].restaurants = merged.restaurants, ![id].updated_at = t]
    ELSE [c EXCEPT ![id] = [exists |-> TRUE, restaurants |-> merged.restaurants,
                            contributors |-> merged.contributors, updated_at |-> t]]

\* upsert(..., {onConflict: 'id'}): the row is replaced as a whole.
upsertRow(c, id, merged, t) ==
    [c EXCEPT ![id] = [exists |-> TRUE, restaurants |-> merged.restaurants,
                       contributors |-> merged.contributors, updated_at |-> t]]

\* The table after setSharedCache.
setSharedCache(c, sb, location, radiusInMeters, restaurants, t, fail) ==
    IF ~sb THEN c
    ELSE IF fail.sharedCache THEN c                              \* error / catch: logged
    ELSE LET read == getSharedCache(c, sb, location, radiusInMeters, t, fail)
             merged == mergeRestaurants(read.ret, restaurants)
         IN  upsertRow(read.cache, cacheId(location, radiusInMeters), merged, t)

\* setSharedCache with each of its two awaited requests failing or not: the
\* lookup through getSharedCache, which answers null on an error, and the
\* upsert, whose error is logged.
setSharedCacheRequests(c, sb, location, radiusInMeters, restaurants, t, failSelect, failUpsert) ==
    IF ~sb THEN c
    ELSE LET read == getSharedCache(c, sb, location, radiusInMeters, t,
                                    [NoFailure EXCEPT !.sharedCache = failSelect])
             merged == mergeRestaurants(read.ret, restaurants)
         IN  IF failUpsert THEN read.cache
             ELSE upsertRow(read.cache, cacheId(location, radiusInMeters), merged, t)

-----------------------------------------------------------------------------
(* BlacklistService *)

\* reportToSharedDatabase: increment the counter of an existing row, else insert one.
reportToSharedDatabase(sbl, restaurantId) ==
    [sbl EXCEPT ![restaurantId] = IF sbl[restaurantId] > 0 THEN sbl[restaurantId] + 1 ELSE 1]

reportToLocalStorage_Skip(lbl, restaurantId) == lbl

\* reportToLocalStorage: append unless already listed.
reportToLocalStorage(lbl, restaurantId) ==
    IF \E i \in 1..Len(lbl) : lbl[i] = restaurantId THEN lbl ELSE Append(lbl, restaurantId)

\* Both reads answer [] when the store request fails.
getSharedBlacklist(sbl, fail) ==
    IF fail.sharedBlacklist THEN {} ELSE {i \in Ids : sbl[i] > 0}
getLocalBlacklist(lbl, fail) ==
    IF fail.localBlacklist THEN {} ELSE {lbl[i] : i \in 1..Len(lbl)}

\* The ids of getBlacklist(): shared rows first, then the local rows not among them.
getBlacklist(sbl, lbl, sb, fail) ==
    LET blacklistedRestaurants == IF sb THEN getSharedBlacklist(sbl, fail) ELSE {}
        uniqueLocal == getLocalBlacklist(lbl, fail) \ blacklistedRestaurants
    IN  blacklistedRestaurants \cup uniqueLocal

filterBlacklistedRestaurantsThrows_Uncaught(fail) ==
    fail.sharedBlacklist \/ fail.localBlacklist

\* Whether filterBlacklistedRestaurants throws: getSharedBlacklist and
\* getLocalBlacklist catch their own errors, getBlacklist and the filter catch
\* again, so no store failure leaves the function.
filterBlacklistedRestaurantsThrows(fail) == FALSE

filterBlacklistedRestaurants_Reversed(restaurants, blacklistedIds) ==
    LET kept == SelectSeq(restaurants, LAMBDA r : r.id \notin blacklistedIds)
    IN  [i \in 1..Len(kept) |-> kept[Len(kept) + 1 - i]]

\* restaurants.filter(restaurant => !blacklistedIds.has(restaurant.id))
filterBlacklistedRestaurants(restaurants, blacklistedIds) ==
    SelectSeq(restaurants, LAMBDA r : r.id \notin blacklistedIds)

\* The awaited requests of reportToSharedDatabase one of which may fail: the
\* lookup (an error other than "not found"), the update, the insert.
ReportSteps == {"none", "lookup", "update", "insert"}

\* reportRestaurant run to completion: the shared table and the device's local
\* list afterwards.  Any error of the shared steps is caught and the report
\* goes to the local list; a failed update or insert leaves the table as it was.
reportRestaurant(sbl, lbl, sb, restaurantId, failStep) ==
    LET fallback == [shared |-> sbl, local |-> reportToLocalStorage(lbl, restaurantId)]
        written == [shared |-> reportToSharedDatabase(sbl, restaurantId), local |-> lbl]
    IN  IF ~sb THEN fallback
        ELSE IF failStep = "lookup" THEN fallback
        ELSE IF sbl[restaurantId] > 0
             THEN IF failStep = "update" THEN fallback ELSE written
             ELSE IF failStep = "insert" THEN fallback ELSE written

\* Rows of restaurant_blacklist with all their columns; restaurant_id is the
\* primary key.
Names == {"name1", "name2"}
Reasons == {"reason1", "reason2"}
BlacklistRow(restaurantId, restaurantName, reason, t, count) ==
    [restaurant_id |-> restaurantId, restaurant_name |-> restaurantName,
     reason |-> reason, reported_at |-> t, reports_count |-> count]

reportToSharedDatabaseRows_AlwaysInsert(table, restaurantId, restaurantName, reason, t) ==
    table \cup {BlacklistRow(restaurantId, restaurantName, reason, t, 1)}

\* reportToSharedDatabase on the full rows, all requests answered: the select
\* by restaurant_id, then an update of reports_count and reported_at of the
\* rows with that id, or an insert of a new row with reports_count 1.
reportToSharedDatabaseRows(table, restaurantId, restaurantName, reason, t) ==
    LET found == {r \in table : r.restaurant_id = restaurantId}
    IN  IF found # {}
        THEN LET existing == CHOOSE r \in found : TRUE
             IN  (table \ found) \cup
                 {[r EXCEPT !.reports_count = existing.reports_count + 1,
                            !.reported_at = t] : r \in found}
        ELSE table \cup {BlacklistRow(restaurantId, restaurantName, reason, t, 1)}

getBlacklistEntries_NoDedupe(sbl, lbl, sb, fail) ==
    LET shared == IF sb THEN getSharedBlacklist(sbl, fail) ELSE {}
        rows == SelectSeq([i \in 1..MaxId |-> i], LAMBDA i : i \in shared)
    IN  [i \in 1..Len(rows) |-> [id |-> rows[i], from |-> "shared"]]
        \o [i \in 1..Len(lbl) |-> [id |-> lbl[i], from |-> "local"]]

\* The list getBlacklist() returns: the shared rows (here in the order of their
\* ids), then the local entries whose id is not among them, in stored order.
getBlacklistEntries(sbl, lbl, sb, fail) ==
    LET shared == IF sb THEN getSharedBlacklist(sbl, fail) ELSE {}
        rows == SelectSeq([i \in 1..MaxId |-> i], LAMBDA i : i \in shared)
        blacklistedRestaurants == [i \in 1..Len(rows) |-> [id |-> rows[i], from |-> "shared"]]
        localBlacklist_ == IF fail.localBlacklist THEN <<>> ELSE lbl
        uniqueLocal == SelectSeq([i \in 1..Len(localBlacklist_) |->
                                    [id |-> localBlacklist_[i], from |-> "local"]],
                                 LAMBDA e : e.id \notin shared)
    IN  blacklistedRestaurants \o uniqueLocal

\* blacklist.some(item => item.id === restaurantId)
isRestaurantBlacklisted(sbl, lbl, sb, restaurantId, fail) ==
    \E i \in 1..Len(getBlacklistEntries(sbl, lbl, sb, fail)) :
       getBlacklistEntries(sbl, lbl, sb, fail)[i].id = restaurantId

clearLocalBlacklist_Keep(lbl) == lbl

\* AsyncStorage.removeItem(BLACKLIST_KEY): a later read finds no list.
clearLocalBlacklist(lbl) == <<>>

-----------------------------------------------------------------------------
(* RestaurantService: the local cache *)

\* `restaurants_cache_${roundedLat}_${roundedLng}_${radiusInMeters}`, rounded to 0.001 degrees
getCacheKey(location, radiusInMeters) ==
    <<MathRoundDiv(location.latitude, 10), MathRoundDiv(location.longitude, 10), radiusInMeters>>

LocalKeys == {getCacheKey(l, r) : l \in Locations, r \in Radii}
NoEntry == [exists |-> FALSE, timestamp |-> 0, restaurants |-> <<>>]

\* A stored string that JSON.parse rejects.
Unparsable == [exists |-> TRUE, unparsable |-> TRUE]
IsUnparsable(cachedData) == "unparsable" \in DOMAIN cachedData

getCachedRestaurants_KeepExpired(lc, location, radiusInMeters, t, fail) ==
    LET cachedData == lc[getCacheKey(location, radiusInMeters)]
    IN  IF fail.localCache \/ ~cachedData.exists \/ IsUnparsable(cachedData)
           \/ t - cachedData.timestamp > CACHE_DURATION
        THEN [ret |-> Null, store |-> lc]
        ELSE [ret |-> Some(cachedData.restaurants), store |-> lc]

\* Result of getCachedRestaurants: the value returned and the device's store afterwards.
getCachedRestaurants(lc, location, radiusInMeters, t, fail) ==
    LET cacheKey == getCacheKey(location, radiusInMeters)
        cachedData == lc[cacheKey]
    IN  IF fail.localCache THEN [ret |-> Null, store |-> lc]     \* catch: null
        ELSE IF ~cachedData.exists THEN [ret |-> Null, store |-> lc]
        ELSE IF IsUnparsable(cachedData) THEN [ret |-> Null, store |-> lc]   \* catch: null
        ELSE IF t - cachedData.timestamp > CACHE_DURATION
             THEN [ret |-> Null, store |-> [lc EXCEPT ![cacheKey] = NoEntry]]
             ELSE [ret |-> Some(cachedData.restaurants), store |-> lc]

cacheRestaurants_Skip(lc, location, radiusInMeters, restaurants, t, fail) == lc

\* AsyncStorage.setItem(cacheKey, {timestamp: Date.now(), restaurants})
cacheRestaurants(lc, location, radiusInMeters, restaurants, t, fail) ==
    IF fail.localCache THEN lc                                   \* catch: logged
    ELSE
    [lc EXCEPT ![getCacheKey(location, radiusInMeters)] =
        [exists |-> TRUE, timestamp |-> t, restaurants |-> restaurants]]

mockRestaurants_Empty == <<>>

\* The placeholder dataset (the first two of its eight records).
mockRestaurants == <<[id |-> 1, v |-> "old"], [id |-> 2, v |-> "old"]>>

\* shuffleArray: any order of the same elements.
shuffleArray(array) ==
    {[i \in 1..Len(array) |-> array[p[i]]] : p \in Permutations(1..Len(array))}

-----------------------------------------------------------------------------
(* RestaurantService.fetchNearbyRestaurants *)

checksCachesFirst_Always(forceRefresh) == TRUE

\* if (!forceRefresh) { local cache, then shared cache }
checksCachesFirst(forceRefresh) == ~forceRefresh

\* if (sharedCachedRestaurants && sharedCachedRestaurants.length > 0)
isSharedHit(sharedCachedRestaurants) ==
    sharedCachedRestaurants.present /\ Len(sharedCachedRestaurants.list) > 0

fetchFromGeoapify_IgnoreFailure(provided, fail) == provided

\* fetchFromGeoapify: the converted features, or [] when the request throws or
\* answers with a non-OK status.
fetchFromGeoapify(provided, fail) == IF fail.provider THEN <<>> ELSE provided

\* The provider step and what follows it inside the try block, from the stores
\* lc0 and c0 left by the cache checks and the calls ev0 made so far.
fetchAfterCaches(lc0, c0, ev0, sb, key, bl, location, radiusInMeters, forceRefresh, provided, t, fail) ==
    IF ~key
    THEN [path |-> "nokey", events |-> ev0, filters |-> 0, list |-> mockRestaurants,
          store |-> lc0, cache |-> c0, threw |-> FALSE]
    ELSE
    LET ev1 == Append(ev0, "fetchFromGeoapify")
        restaurants == fetchFromGeoapify(provided, fail)
        thrown == filterBlacklistedRestaurantsThrows(fail)
        filteredRestaurants == filterBlacklistedRestaurants(restaurants, bl)
        fallbackRead == getCachedRestaurants(lc0, location, radiusInMeters, t, fail)
    IN  IF Len(restaurants) > 0
        THEN [path |-> "provider",
              events |-> IF thrown THEN ev1
                         ELSE ev1 \o <<"cacheRestaurants", "setSharedCache">>,
              filters |-> 1, list |-> filteredRestaurants,
              store |-> IF thrown THEN lc0
                        ELSE cacheRestaurants(lc0, location, radiusInMeters,
                                              filteredRestaurants, t, fail),
              cache |-> IF thrown THEN c0
                        ELSE setSharedCache(c0, sb, location, radiusInMeters,
                                            filteredRestaurants, t, fail),
              threw |-> thrown]
        ELSE IF forceRefresh /\ fallbackRead.ret.present
        THEN [path |-> "fallbackLocal", events |-> Append(ev1, "getCachedRestaurants"),
              filters |-> 1,
              list |-> filterBlacklistedRestaurants(fallbackRead.ret.list, bl),
              store |-> fallbackRead.store, cache |-> c0, threw |-> thrown]
        ELSE [path |-> "mock",
              events |-> IF forceRefresh THEN Append(ev1, "getCachedRestaurants") ELSE ev1,
              filters |-> 1,
              list |-> filterBlacklistedRestaurants(mockRestaurants, bl),
              store |-> IF forceRefresh THEN fallbackRead.store ELSE lc0, cache |-> c0,
              threw |-> thrown]

\* The try block of fetchNearbyRestaurants: the terminal path, the calls made in
\* order, the number of blacklist filter passes over the returned list, that
\* list before the final shuffle, both stores afterwards, and whether the block
\* was left by an exception.
fetchNearbyRestaurantsTry(lc, c, sb, key, bl, location, radiusInMeters, forceRefresh, provided, t, fail) ==
    LET localRead == getCachedRestaurants(lc, location, radiusInMeters, t, fail)
        sharedRead == getSharedCache(c, sb, location, radiusInMeters, t, fail)
        thrown == filterBlacklistedRestaurantsThrows(fail)
        filteredSharedRestaurants == filterBlacklistedRestaurants(sharedRead.ret.list, bl)
    IN  IF ~checksCachesFirst(forceRefresh)
        THEN fetchAfterCaches(lc, c, <<>>, sb, key, bl, location, radiusInMeters,
                              forceRefresh, provided, t, fail)
        ELSE IF localRead.ret.present
        THEN [path |-> "local", events |-> <<"getCachedRestaurants">>, filters |-> 1,
              list |-> filterBlacklistedRestaurants(localRead.ret.list, bl),
              store |-> localRead.store, cache |-> c, threw |-> thrown]
        ELSE IF isSharedHit(sharedRead.ret)
        THEN [path |-> "shared",
              events |-> IF thrown THEN <<"getCachedRestaurants", "getSharedCache">>
                         ELSE <<"getCachedRestaurants", "getSharedCache",
                                "cacheRestaurants">>,
              filters |-> 1, list |-> filteredSharedRestaurants,
              store |-> IF thrown THEN localRead.store
                        ELSE cacheRestaurants(localRead.store, location, radiusInMeters,
                                              filteredSharedRestaurants, t, fail),
              cache |-> sharedRead.cache, threw |-> thrown]
        ELSE fetchAfterCaches(localRead.store, sharedRead.cache,
                              <<"getCachedRestaurants", "getSharedCache">>, sb, key, bl,
                              location, radiusInMeters, forceRefresh, provided, t, fail)

\* fetchNearbyRestaurants: the try block, and on an exception the catch block,
\* which returns the filtered placeholder dataset; `raised` tells whether the
\* call ends with an exception for its caller.
fetchNearbyRestaurants(lc, c, sb, key, bl, location, radiusInMeters, forceRefresh, provided, t, fail) ==
    LET try == fetchNearbyRestaurantsTry(lc, c, sb, key, bl, location, radiusInMeters,
                                         forceRefresh, provided, t, fail)
        rethrown == filterBlacklistedRestaurantsThrows(fail)
    IN  IF try.threw
        THEN [path |-> "catch", events |-> try.events, filters |-> 1,
              list |-> IF rethrown THEN <<>>
                       ELSE filterBlacklistedRestaurants(mockRestaurants, bl),
              store |-> try.store, cache |-> try.cache, raised |-> rethrown]
        ELSE [path |-> try.path, events |-> try.events, filters |-> try.filters,
              list |-> try.list, store |-> try.store, cache |-> try.cache,
              raised |-> FALSE]

-----------------------------------------------------------------------------
(* RestaurantService.fetchFreshRestaurants *)

Min(a, b) == IF a <= b THEN a ELSE b

\* Math.min(radiusInMeters * 1.5, 10000); the radii passed are whole multiples
\* of 500 m, for which the product is a whole number.
expandedRadiusOf(radiusInMeters) == Min((3 * radiusInMeters) \div 2, 10000)

\* const maxRadius = 15000
maxRadius == 15000

\* filter(restaurant => !seenRestaurantIds.includes(restaurant.id))
unseenOf(restaurants, seenRestaurantIds) ==
    SelectSeq(restaurants, LAMBDA r : r.id \notin seenRestaurantIds)

sliceTo_All(list, maxResults) == list

\* list.slice(0, maxResults)
sliceTo(list, maxResults) == SubSeq(list, 1, Min(maxResults, Len(list)))

\* The steps of fetchFreshRestaurants after its provider attempts found nothing
\* new: the local entry without the seen ids, else the whole local entry, else
\* the placeholder dataset; `attempts` are the radii of the provider requests made.
freshFromCache(lc, c, bl, location, radiusInMeters, seenRestaurantIds, attempts, t, fail) ==
    LET cachedRead == getCachedRestaurants(lc, location, radiusInMeters, t, fail)
        filteredCached == filterBlacklistedRestaurants(cachedRead.ret.list, bl)
        unseenCached == unseenOf(filteredCached, seenRestaurantIds)
    IN  IF cachedRead.ret.present /\ Len(unseenCached) > 0
        THEN [path |-> "cachedUnseen", attempts |-> attempts, list |-> unseenCached,
              store |-> cachedRead.store, cache |-> c]
        ELSE IF cachedRead.ret.present
        THEN [path |-> "cachedAll", attempts |-> attempts, list |-> filteredCached,
              store |-> cachedRead.store, cache |-> c]
        ELSE [path |-> "mock", attempts |-> attempts,
              list |-> filterBlacklistedRestaurants(mockRestaurants, bl),
              store |-> cachedRead.store, cache |-> c]

\* fetchFreshRestaurants: the terminal path, the radii of the provider requests
\* in order, the list returned before the final shuffle, and both stores
\* afterwards.  provided1 and provided2 are the provider's answers to the first
\* and to the second request.
fetchFreshRestaurants(lc, c, sb, key, bl, location, radiusInMeters, maxResults, seenRestaurantIds, provided1, provided2, t, fail) ==
    IF ~key
    THEN [path |-> "nokey", attempts |-> <<>>,
          list |-> filterBlacklistedRestaurants(
                      unseenOf(mockRestaurants, seenRestaurantIds), bl),
          store |-> lc, cache |-> c]
    ELSE
    LET expandedRadius == expandedRadiusOf(radiusInMeters)
        filteredRestaurants ==
            filterBlacklistedRestaurants(fetchFromGeoapify(provided1, fail), bl)
        unseenRestaurants == unseenOf(filteredRestaurants, seenRestaurantIds)
        newFilteredRestaurants ==
            filterBlacklistedRestaurants(fetchFromGeoapify(provided2, fail), bl)
        newUnseenRestaurants == unseenOf(newFilteredRestaurants, seenRestaurantIds)
    IN  IF Len(unseenRestaurants) > 0
        THEN [path |-> "attempt1", attempts |-> <<expandedRadius>>,
              list |-> sliceTo(unseenRestaurants, maxResults),
              store |-> cacheRestaurants(lc, location, radiusInMeters,
                                         filteredRestaurants, t, fail),
              cache |-> setSharedCache(c, sb, location, radiusInMeters,
                                       filteredRestaurants, t, fail)]
        ELSE IF expandedRadius < maxRadius
        THEN IF Len(newUnseenRestaurants) > 0
             THEN [path |-> "attempt2", attempts |-> <<expandedRadius, maxRadius>>,
                   list |-> sliceTo(newUnseenRestaurants, maxResults),
                   store |-> cacheRestaurants(lc, location, radiusInMeters,
                                              newFilteredRestaurants, t, fail),
                   cache |-> setSharedCache(c, sb, location, radiusInMeters,
                                            newFilteredRestaurants, t, fail)]
             ELSE freshFromCache(lc, c, bl, location, radiusInMeters, seenRestaurantIds,
                                 <<expandedRadius, maxRadius>>, t, fail)
        ELSE freshFromCache(lc, c, bl, location, radiusInMeters, seenRestaurantIds,
                            <<expandedRadius>>, t, fail)

-----------------------------------------------------------------------------
(* RestaurantService.updateRestaurantImage *)

\* The contents of a record after {...restaurant, image: imageUrl,
\* dataSource: 'user-contributed'}.
UserContributed == "user-contributed"

\* updateRestaurantImage: the value returned and both stores afterwards.  The
\* record is looked up in the device's local entry, replaced in a copy of that
\* list, and the list is written with cacheRestaurants and setSharedCache.
updateRestaurantImage(lc, c, sb, restaurantId, location, radiusInMeters, t, fail) ==
    LET cachedRead == getCachedRestaurants(lc, location, radiusInMeters, t, fail)
        cachedRestaurants == cachedRead.ret.list
        updatedRestaurants ==
            [i \in 1..Len(cachedRestaurants) |->
                IF i = CHOOSE j \in 1..Len(cachedRestaurants) :
                          /\ cachedRestaurants[j].id = restaurantId
                          /\ \A k \in 1..(j - 1) : cachedRestaurants[k].id # restaurantId
                THEN [cachedRestaurants[i] EXCEPT !.v = UserContributed]
                ELSE cachedRestaurants[i]]
    IN  IF ~cachedRead.ret.present
        THEN [ret |-> FALSE, store |-> cachedRead.store, cache |-> c]
        ELSE IF restaurantId \notin IdsOf(cachedRestaurants)
        THEN [ret |-> FALSE, store |-> cachedRead.store, cache |-> c]
        ELSE [ret |-> TRUE,
              store |-> cacheRestaurants(cachedRead.store, location, radiusInMeters,
                                         updatedRestaurants, t, fail),
              cache |-> setSharedCache(c, sb, location, radiusInMeters,
                                       updatedRestaurants, t, fail)]

-----------------------------------------------------------------------------
(* State after construction *)

IdleProc == [pc |-> "idle", calls |-> 0, location |-> LocA, radius |-> 5000,
             restaurants |-> <<>>, existingData |-> Null, committed |-> FALSE]
NoQuant == [phase |-> "off"]

InitStores ==
    /\ now = 0
    /\ cache = [id \in CacheIds |-> NoRow]
    /\ localCache = [d \in Devices |-> [k \in LocalKeys |-> NoEntry]]
    /\ sharedBlacklist = [i \in Ids |-> 0]
    /\ localBlacklist = [d \in Devices |-> <<>>]
    /\ proc = [d \in Devices |-> IdleProc]
    /\ last = [op |-> "init"]

Init ==
    /\ InitStores
    /\ supabase \in BOOLEAN
    /\ apiKey = TRUE
    /\ quant = NoQuant

-----------------------------------------------------------------------------
(* Sequential use of SharedCacheService: each call runs to completion *)

Tick ==
    /\ now < MaxTime
    /\ now' = now + 1
    /\ last' = [op |-> "tick"]
    /\ UNCHANGED <<supabase, apiKey, cache, localCache, sharedBlacklist,
                   localBlacklist, proc, quant>>

GetSharedCache(location, radiusInMeters) ==
    LET read == getSharedCache(cache, supabase, location, radiusInMeters, now, NoFailure)
    IN  /\ cache' = read.cache
        /\ last' = [op |-> "get", id |-> cacheId(location, radiusInMeters),
                    pre |-> selectRow(cache, location, radiusInMeters),
                    ret |-> read.ret]
        /\ UNCHANGED <<now, supabase, apiKey, localCache, sharedBlacklist,
                       localBlacklist, proc, quant>>

SetSharedCache(location, radiusInMeters, restaurants) ==
    /\ cache' = setSharedCache(cache, supabase, location, radiusInMeters, restaurants, now, NoFailure)
    /\ last' = [op |-> "set", id |-> cacheId(location, radiusInMeters),
                pre |-> selectRow(cache, location, radiusInMeters),
                restaurants |-> restaurants]
    /\ UNCHANGED <<now, supabase, apiKey, localCache, sharedBlacklist,
                   localBlacklist, proc, quant>>

\* The sequential runs put into and read from the bucket of one grid cell.
CellLocations == {LocA}

Next ==
    \/ Tick
    \/ \E l \in CellLocations, r \in Radii : GetSharedCache(l, r)
    \/ \E l \in CellLocations, r \in Radii, rs \in Lists : SetSharedCache(l, r, rs)

Spec == Init /\ [][Next]_vars

-----------------------------------------------------------------------------
(* Interleaved setSharedCache calls of two devices: one step per awaited     *)
(* store request (select, delete, upsert)                                    *)

\* Two devices of one grid cell, each contributing at most one place per call,
\* MaxCalls calls in all.
WriterLocation(d) == IF d = "A" THEN LocA ELSE LocC
WriterLists == {rs \in Lists : Len(rs) <= 1 /\ \A i \in 1..Len(rs) : rs[i].v = "new"}
CallsMade == proc["A"].calls + proc["B"].calls

ProcId(d) == cacheId(proc[d].location, proc[d].radius)

SetStart(d, radiusInMeters, restaurants) ==
    /\ proc[d].pc \in {"idle", "done"}
    /\ CallsMade < MaxCalls
    /\ proc' = [proc EXCEPT ![d] =
                    [pc |-> IF supabase THEN "select" ELSE "done",
                     calls |-> proc[d].calls + 1,
                     location |-> WriterLocation(d), radius |-> radiusInMeters,
                     restaurants |-> restaurants, existingData |-> Null,
                     committed |-> FALSE]]
    /\ UNCHANGED <<now, supabase, apiKey, cache, localCache, sharedBlacklist,
                   localBlacklist, last, quant>>

SetSelect(d) ==
    /\ proc[d].pc = "select"
    /\ LET cacheRecord == selectRow(cache, proc[d].location, proc[d].radius)
       IN  proc' = [proc EXCEPT
                ![d].pc = IF cacheRecord.exists /\ isExpired(cacheRecord, now)
                          THEN "cleanup" ELSE "upsert",
                ![d].existingData =
                    getSharedCache(cache, supabase, proc[d].location, proc[d].radius, now,
                                   NoFailure).ret]
    /\ UNCHANGED <<now, supabase, apiKey, cache, localCache, sharedBlacklist,
                   localBlacklist, last, quant>>

SetCleanup(d) ==
    /\ proc[d].pc = "cleanup"
    /\ cache' = cleanupExpiredCache(cache, ProcId(d))
    /\ proc' = [proc EXCEPT ![d].pc = "upsert"]
    /\ UNCHANGED <<now, supabase, apiKey, localCache, sharedBlacklist,
                   localBlacklist, last, quant>>

SetUpsert(d) ==
    /\ proc[d].pc = "upsert"
    /\ cache' = upsertRow(cache, ProcId(d),
                          mergeRestaurants(proc[d].existingData, proc[d].restaurants), now)
    /\ proc' = [proc EXCEPT ![d].pc = "done", ![d].committed = TRUE]
    /\ last' = [op |-> "upsert", dev |-> d, id |-> ProcId(d),
                base |-> proc[d].existingData, restaurants |-> proc[d].restaurants,
                t |-> now]
    /\ UNCHANGED <<now, supabase, apiKey, localCache, sharedBlacklist,
                   localBlacklist, quant>>

TickConc ==
    /\ now < MaxTime
    /\ now' = now + 1
    /\ UNCHANGED <<supabase, apiKey, cache, localCache, sharedBlacklist,
                   localBlacklist, proc, last, quant>>

NextConc ==
    \/ TickConc
    \/ \E d \in Devices, r \in Radii, rs \in WriterLists : SetStart(d, r, rs)
    \/ \E d \in Devices : SetSelect(d)
    \/ \E d \in Devices : SetCleanup(d)
    \/ \E d \in Devices : SetUpsert(d)

SpecConc == Init /\ [][NextConc]_vars

-----------------------------------------------------------------------------
(* getCacheGrid applied to two sampled requests *)

LatSamples == {LocA.latitude, LocB.latitude} \cup {377700 + 15 * i : i \in 0..MaxSample}
LngSamples == {LocA.longitude, LocB.longitude, -1224150}
RadiusSamples == {3000, 3001, 8000, 12000}

InitGrid ==
    /\ InitStores
    /\ supabase = TRUE
    /\ apiKey = TRUE
    /\ \E lat1 \in LatSamples, lat2 \in LatSamples,
          lng1 \in LngSamples, lng2 \in LngSamples,
          r1 \in RadiusSamples, r2 \in RadiusSamples :
          quant = [phase |-> "in",
                   a |-> [latitude |-> lat1, longitude |-> lng1], radiusA |-> r1,
                   b |-> [latitude |-> lat2, longitude |-> lng2], radiusB |-> r2]

Quantize ==
    /\ quant.phase = "in"
    /\ quant' = [phase |-> "out", a |-> quant.a, radiusA |-> quant.radiusA,
                 b |-> quant.b, radiusB |-> quant.radiusB,
                 gridA |-> getCacheGrid(quant.a, quant.radiusA),
                 gridB |-> getCacheGrid(quant.b, quant.radiusB)]
    /\ UNCHANGED <<now, supabase, apiKey, cache, localCache, sharedBlacklist,
                   localBlacklist, proc, last>>

NextGrid == Quantize

SpecGrid == InitGrid /\ [][NextGrid]_vars

\* Requests at one of two locations with radii at, next to and beyond every
\* threshold of the radius normalisation.
TierSamples == {1, 2999, 3000, 3001, 5000, 5001, 7999, 8000, 8001, 10000, 10001, 12000}

InitTier ==
    /\ InitStores
    /\ supabase = TRUE
    /\ apiKey = TRUE
    /\ \E la \in {LocA, LocB}, lb \in {LocA, LocB}, r1 \in TierSamples, r2 \in TierSamples :
          quant = [phase |-> "in", a |-> la, radiusA |-> r1, b |-> lb, radiusB |-> r2]

SpecTier == InitTier /\ [][NextGrid]_vars

-----------------------------------------------------------------------------
(* Devices fetching and reporting, one call at a time (SpecFetch) *)

DeviceLocations(d) == IF d = "A" THEN {LocA} ELSE {LocB, LocC}

ProviderLists == WriterLists

RECURSIVE ReportsUpTo(_, _)
ReportsUpTo(sbl, n) == IF n = 0 THEN 0 ELSE sbl[n] + ReportsUpTo(sbl, n - 1)

\* Reports accepted so far, in the shared table and in the devices' local lists.
ReportsMade ==
    ReportsUpTo(sharedBlacklist, MaxId) + Len(localBlacklist["A"]) + Len(localBlacklist["B"])

InitFetch ==
    /\ InitStores
    /\ supabase \in BOOLEAN
    /\ apiKey \in BOOLEAN
    /\ quant = NoQuant

TickFetch ==
    /\ now < MaxClock
    /\ now' = now + 1
    /\ last' = [op |-> "tick"]
    /\ UNCHANGED <<supabase, apiKey, cache, localCache, sharedBlacklist,
                   localBlacklist, proc, quant>>

FetchNearbyRestaurants(d, location, radiusInMeters, forceRefresh, provided, fail) ==
    /\ CallsMade < MaxFetches
    /\ \E bl \in {getBlacklist(sharedBlacklist, localBlacklist[d], supabase, fail)} :
       \E out \in {fetchNearbyRestaurants(localCache[d], cache, supabase, apiKey, bl,
                                          location, radiusInMeters, forceRefresh,
                                          provided, now, fail)} :
           /\ localCache' = [localCache EXCEPT ![d] = out.store]
           /\ cache' = out.cache
           /\ \E ret \in shuffleArray(out.list) :
                 last' = [op |-> "fetch", dev |-> d, location |-> location,
                          radius |-> radiusInMeters, forceRefresh |-> forceRefresh,
                          provided |-> IF out.path \in {"provider", "fallbackLocal", "mock"}
                                       THEN provided ELSE <<>>,
                          path |-> out.path,
                          events |-> out.events, filters |-> out.filters,
                          fail |-> fail, raised |-> out.raised,
                          blacklisted |-> bl, ret |-> ret,
                          preEntry |-> localCache[d][getCacheKey(location, radiusInMeters)],
                          preCache |-> cache]
    /\ proc' = [proc EXCEPT ![d].calls = proc[d].calls + 1]
    /\ UNCHANGED <<now, supabase, apiKey, sharedBlacklist, localBlacklist, quant>>

ReportRestaurant(d, restaurantId) ==
    /\ ReportsMade < MaxReports
    /\ IF supabase
       THEN /\ sharedBlacklist' = reportToSharedDatabase(sharedBlacklist, restaurantId)
            /\ UNCHANGED localBlacklist
       ELSE /\ localBlacklist' = [localBlacklist EXCEPT
                                    ![d] = reportToLocalStorage(localBlacklist[d], restaurantId)]
            /\ UNCHANGED sharedBlacklist
    /\ last' = [op |-> "report", dev |-> d, restaurantId |-> restaurantId]
    /\ UNCHANGED <<now, supabase, apiKey, cache, localCache, proc, quant>>

NextFetch ==
    \/ TickFetch
    \/ \E d \in Devices :
          \E l \in DeviceLocations(d), r \in Radii, f \in BOOLEAN, rs \in ProviderLists :
             FetchNearbyRestaurants(d, l, r, f, rs, NoFailure)
    \/ \E d \in Devices, i \in Ids : ReportRestaurant(d, i)

SpecFetch == InitFetch /\ [][NextFetch]_vars

-----------------------------------------------------------------------------
(* Two puts into one bucket, in either order *)

OldLists == {rs \in Lists : \A i \in 1..Len(rs) : rs[i].v = "old"}
NewLists == {rs \in Lists : \A i \in 1..Len(rs) : rs[i].v = "new"}

\* The bucket before the puts: no row, or a row written at time 0.
BaseRows == {NoRow} \cup {[exists |-> TRUE, restaurants |-> rs, contributors |-> 1,
                          updated_at |-> 0] : rs \in OldLists}

InitOrder ==
    /\ InitStores
    /\ supabase = TRUE
    /\ apiKey = TRUE
    /\ quant \in [phase : {"in"}, base : BaseRows, t : 0..MaxTime,
                  P : NewLists, Q : NewLists]

\* setSharedCache(P) then setSharedCache(Q), and the same two calls swapped,
\* each pair from the same table at the same time.
PutBothOrders ==
    /\ quant.phase = "in"
    /\ LET c == [id \in CacheIds |-> IF id = cacheId(LocA, 5000) THEN quant.base ELSE NoRow]
           put(c0, rs) == setSharedCache(c0, supabase, LocA, 5000, rs, quant.t, NoFailure)
       IN  quant' = [phase |-> "order", base |-> quant.base, t |-> quant.t,
                     P |-> quant.P, Q |-> quant.Q,
                     PQ |-> put(put(c, quant.P), quant.Q)[cacheId(LocA, 5000)],
                     QP |-> put(put(c, quant.Q), quant.P)[cacheId(LocA, 5000)]]
    /\ UNCHANGED <<now, supabase, apiKey, cache, localCache, sharedBlacklist,
                   localBlacklist, proc, last>>

NextOrder == PutBothOrders

SpecOrder == InitOrder /\ [][NextOrder]_vars

-----------------------------------------------------------------------------
(* Interleaved reportRestaurant calls of two devices: one step per awaited   *)
(* store request (select, then update or insert), and the administrative     *)
(* removeFromBlacklist                                                       *)

IdleReport == [pc |-> "idle", calls |-> 0, restaurantId |-> 1, existing |-> 0]

InitReport ==
    /\ now = 0
    /\ supabase \in BOOLEAN
    /\ apiKey = TRUE
    /\ cache = [id \in CacheIds |-> NoRow]
    /\ localCache = [d \in Devices |-> [k \in LocalKeys |-> NoEntry]]
    /\ sharedBlacklist = [i \in Ids |-> 0]
    /\ localBlacklist = [d \in Devices |-> <<>>]
    /\ proc = [d \in Devices |-> IdleReport]
    /\ last = [op |-> "init"]
    /\ quant = NoQuant

\* reportRestaurant: to the shared table if the client is configured, else to
\* the device's local list.
ReportStart(d, restaurantId) ==
    /\ proc[d].pc \in {"idle", "done"}
    /\ proc[d].calls < MaxCalls
    /\ proc' = [proc EXCEPT ![d] = [pc |-> IF supabase THEN "select" ELSE "done",
                                    calls |-> proc[d].calls + 1,
                                    restaurantId |-> restaurantId, existing |-> 0]]
    /\ localBlacklist' = IF supabase THEN localBlacklist
                         ELSE [localBlacklist EXCEPT
                                 ![d] = reportToLocalStorage(localBlacklist[d], restaurantId)]
    /\ last' = [op |-> "reportStart", dev |-> d, restaurantId |-> restaurantId]
    /\ UNCHANGED <<now, supabase, apiKey, cache, localCache, sharedBlacklist, quant>>

\* select('restaurant_id, reports_count').eq('restaurant_id', restaurantId).single()
ReportSelect(d) ==
    /\ proc[d].pc = "select"
    /\ proc' = [proc EXCEPT ![d].pc = "write",
                            ![d].existing = sharedBlacklist[proc[d].restaurantId]]
    /\ last' = [op |-> "reportSelect", dev |-> d, restaurantId |-> proc[d].restaurantId]
    /\ UNCHANGED <<now, supabase, apiKey, cache, localCache, sharedBlacklist,
                   localBlacklist, quant>>

\* update({reports_count: existing.reports_count + 1}).eq('restaurant_id', ...):
\* changes the row if it is still there.
updateReportsCount(sbl, restaurantId, existing) ==
    IF sbl[restaurantId] > 0 THEN [sbl EXCEPT ![restaurantId] = existing + 1] ELSE sbl

\* if (existing) update, else insert; an insert that meets a row of the same
\* restaurant_id fails, and the report falls back to the local list.
ReportWrite(d) ==
    /\ proc[d].pc = "write"
    /\ LET restaurantId == proc[d].restaurantId
           existing == proc[d].existing
       IN  /\ IF existing > 0
              THEN /\ sharedBlacklist' = updateReportsCount(sharedBlacklist, restaurantId,
                                                            existing)
                   /\ UNCHANGED localBlacklist
              ELSE IF sharedBlacklist[restaurantId] > 0
              THEN /\ localBlacklist' =
                        [localBlacklist EXCEPT
                           ![d] = reportToLocalStorage(localBlacklist[d], restaurantId)]
                   /\ UNCHANGED sharedBlacklist
              ELSE /\ sharedBlacklist' = [sharedBlacklist EXCEPT ![restaurantId] = 1]
                   /\ UNCHANGED localBlacklist
           /\ last' = [op |-> "reportWrite", dev |-> d, restaurantId |-> restaurantId,
                       existing |-> existing, before |-> sharedBlacklist[restaurantId]]
    /\ proc' = [proc EXCEPT ![d].pc = "done"]
    /\ UNCHANGED <<now, supabase, apiKey, cache, localCache, quant>>

\* removeFromBlacklist: delete the shared row, and the id from the local list.
RemoveFromBlacklist(d, restaurantId) ==
    /\ \/ sharedBlacklist[restaurantId] > 0
       \/ \E i \in 1..Len(localBlacklist[d]) : localBlacklist[d][i] = restaurantId
    /\ sharedBlacklist' = IF supabase THEN [sharedBlacklist EXCEPT ![restaurantId] = 0]
                          ELSE sharedBlacklist
    /\ localBlacklist' = [localBlacklist EXCEPT
                            ![d] = SelectSeq(localBlacklist[d],
                                             LAMBDA i : i # restaurantId)]
    /\ last' = [op |-> "remove", dev |-> d, restaurantId |-> restaurantId]
    /\ UNCHANGED <<now, supabase, apiKey, cache, localCache, proc, quant>>

NextReport ==
    \/ \E d \in Devices, i \in Ids : ReportStart(d, i)
    \/ \E d \in Devices : ReportSelect(d)
    \/ \E d \in Devices : ReportWrite(d)
    \/ \E d \in Devices, i \in Ids : RemoveFromBlacklist(d, i)

SpecReport == InitReport /\ [][NextReport]_vars

-----------------------------------------------------------------------------
(* filterBlacklistedRestaurants on its own *)

\* Lists of up to MaxLen + 1 places, so that two survivors can surround a
\* blacklisted one.
FilterLists == {[i \in 1..Len(is) |-> [id |-> is[i], v |-> "old"]] :
                   is \in SeqsUpTo(Ids, MaxLen + 1)}
BlacklistFailures == {f \in Failures : ~f.provider /\ ~f.sharedCache /\ ~f.localCache}

InitFilter ==
    /\ InitStores
    /\ supabase \in BOOLEAN
    /\ apiKey = TRUE
    /\ quant \in [phase : {"in"}, restaurants : FilterLists,
                  sharedBlacklist : [Ids -> 0..1], localBlacklist : SeqsUpTo(Ids, 1),
                  fail : BlacklistFailures]

FilterBlacklistedRestaurants ==
    /\ quant.phase = "in"
    /\ LET blacklistedIds == getBlacklist(quant.sharedBlacklist, quant.localBlacklist,
                                          supabase, quant.fail)
       IN  quant' = [phase |-> "filter", restaurants |-> quant.restaurants,
                     sharedBlacklist |-> quant.sharedBlacklist,
                     localBlacklist |-> quant.localBlacklist, fail |-> quant.fail,
                     out |-> filterBlacklistedRestaurants(quant.restaurants, blacklistedIds)]
    /\ UNCHANGED <<now, supabase, apiKey, cache, localCache, sharedBlacklist,
                   localBlacklist, proc, last>>

NextFilter == FilterBlacklistedRestaurants

SpecFilter == InitFilter /\ [][NextFilter]_vars

-----------------------------------------------------------------------------
(* Device B fetching in A's grid cell after A has written the bucket *)

\* The table after device A's setSharedCache of a non-empty provider list.
InitWarm ==
    /\ now = 0
    /\ supabase = TRUE
    /\ apiKey \in BOOLEAN
    /\ \E rs \in ProviderLists :
          /\ Len(rs) > 0
          /\ cache = setSharedCache([id \in CacheIds |-> NoRow], TRUE, LocA, 5000, rs, 0,
                                    NoFailure)
    /\ localCache = [d \in Devices |-> [k \in LocalKeys |-> NoEntry]]
    /\ sharedBlacklist = [i \in Ids |-> 0]
    /\ localBlacklist = [d \in Devices |-> <<>>]
    /\ proc = [d \in Devices |-> IdleProc]
    /\ last = [op |-> "init"]
    /\ quant = NoQuant

NextWarm ==
    \/ TickFetch
    \/ \E f \in BOOLEAN, rs \in ProviderLists :
          FetchNearbyRestaurants("B", LocC, 5000, f, rs, NoFailure)
    \/ \E i \in Ids : ReportRestaurant("B", i)

SpecWarm == InitWarm /\ [][NextWarm]_vars

-----------------------------------------------------------------------------
(* One device fetching while outside requests may fail *)

\* The provider answers with no place or with one place outside the placeholder
\* dataset.
FailLists == {rs \in ProviderLists : \A i \in 1..Len(rs) : rs[i].id = MaxId}

NextFail ==
    \/ TickFetch
    \/ \E f \in BOOLEAN, rs \in FailLists, fail \in Failures :
          FetchNearbyRestaurants("A", LocA, 5000, f, rs, fail)
    \/ \E i \in Ids : ReportRestaurant("A", i)

SpecFail == InitFetch /\ [][NextFail]_vars

-----------------------------------------------------------------------------
(* BlacklistService used by two devices, one call at a time, while the       *)
(* requests of a shared report may fail (SpecBlacklist)                      *)

\* Both restaurant caches hold device A's list, so that a change to them shows.
InitBlacklist ==
    /\ now = 0
    /\ supabase \in BOOLEAN
    /\ apiKey = TRUE
    /\ cache = setSharedCache([id \in CacheIds |-> NoRow], TRUE, LocA, 5000,
                              mockRestaurants, 0, NoFailure)
    /\ localCache = [d \in Devices |->
                       cacheRestaurants([k \in LocalKeys |-> NoEntry], LocA, 5000,
                                        mockRestaurants, 0, NoFailure)]
    /\ sharedBlacklist = [i \in Ids |-> 0]
    /\ localBlacklist = [d \in Devices |-> <<>>]
    /\ proc = [d \in Devices |-> IdleProc]
    /\ last = [op |-> "init"]
    /\ quant = NoQuant

ReportRestaurantToEnd(d, restaurantId, failStep) ==
    /\ sharedBlacklist[restaurantId] < MaxReports
    /\ \E out \in {reportRestaurant(sharedBlacklist, localBlacklist[d], supabase,
                                      restaurantId, failStep)} :
          /\ sharedBlacklist' = out.shared
          /\ localBlacklist' = [localBlacklist EXCEPT ![d] = out.local]
    /\ last' = [op |-> "report", dev |-> d, restaurantId |-> restaurantId,
                failStep |-> failStep, existing |-> sharedBlacklist[restaurantId]]
    /\ UNCHANGED <<now, supabase, apiKey, cache, localCache, proc, quant>>

GetBlacklist(d) ==
    /\ last' = [op |-> "getBlacklist", dev |-> d,
                ret |-> getBlacklistEntries(sharedBlacklist, localBlacklist[d], supabase,
                                            NoFailure)]
    /\ UNCHANGED <<now, supabase, apiKey, cache, localCache, sharedBlacklist,
                   localBlacklist, proc, quant>>

ClearLocalBlacklist(d) ==
    /\ localBlacklist' = [localBlacklist EXCEPT ![d] = clearLocalBlacklist(localBlacklist[d])]
    /\ last' = [op |-> "clearLocal", dev |-> d, before |-> localBlacklist[d]]
    /\ UNCHANGED <<now, supabase, apiKey, cache, localCache, sharedBlacklist, proc, quant>>

NextBlacklist ==
    \/ \E d \in Devices, i \in Ids, f \in ReportSteps : ReportRestaurantToEnd(d, i, f)
    \/ \E d \in Devices : GetBlacklist(d)
    \/ \E d \in Devices : ClearLocalBlacklist(d)
    \/ \E d \in Devices, i \in Ids : RemoveFromBlacklist(d, i)

SpecBlacklist == InitBlacklist /\ [][NextBlacklist]_vars

-----------------------------------------------------------------------------
(* One shared report applied to a restaurant_blacklist table (SpecRows) *)

RowIds == 1..2
StoredTimes == 0..1
ReportTimes == 2..3
RowsOf(i) ==
    {{}} \cup {{BlacklistRow(i, n, r, t, c)} :
                 n \in Names, r \in Reasons, t \in StoredTimes, c \in 1..MaxReports}
Tables == {a \cup b : a \in RowsOf(1), b \in RowsOf(2)}

InitRows ==
    /\ InitStores
    /\ supabase = TRUE
    /\ apiKey = TRUE
    /\ quant \in [phase : {"in"}, table : Tables, restaurantId : RowIds,
                  restaurantName : Names, reason : Reasons, t : ReportTimes]

ReportToSharedDatabase ==
    /\ quant.phase = "in"
    /\ quant' = [phase |-> "reported", before |-> quant.table,
                 restaurantId |-> quant.restaurantId,
                 restaurantName |-> quant.restaurantName, reason |-> quant.reason,
                 t |-> quant.t,
                 table |-> reportToSharedDatabaseRows(quant.table, quant.restaurantId,
                                                      quant.restaurantName, quant.reason,
                                                      quant.t)]
    /\ UNCHANGED <<now, supabase, apiKey, cache, localCache, sharedBlacklist,
                   localBlacklist, proc, last>>

NextRows == ReportToSharedDatabase

SpecRows == InitRows /\ [][NextRows]_vars

-----------------------------------------------------------------------------
(* One device reading and writing its local restaurant cache under several   *)
(* keys, while a stored entry may get damaged (SpecLocal)                    *)

\* LocD rounds to the same 0.001 degree point as LocA; LocB to another one.
LocD == [latitude |-> 377751, longitude |-> -1224192]
LocalLocations == {LocA, LocD, LocB}
LocalRadii == {3000, 5000}
WideKeys == {getCacheKey(l, r) : l \in LocalLocations, r \in LocalRadii}
LocalLists == {<<[id |-> 1, v |-> "old"]>>, <<[id |-> 2, v |-> "new"], [id |-> 1, v |-> "old"]>>}

InitLocal ==
    /\ now = 0
    /\ supabase = FALSE
    /\ apiKey = TRUE
    /\ cache = [id \in CacheIds |-> NoRow]
    /\ localCache = [d \in Devices |-> [k \in WideKeys |-> NoEntry]]
    /\ sharedBlacklist = [i \in Ids |-> 0]
    /\ localBlacklist = [d \in Devices |-> <<>>]
    /\ proc = [d \in Devices |-> IdleProc]
    /\ last = [op |-> "init"]
    /\ quant = NoQuant

GetCachedRestaurants(d, location, radiusInMeters) ==
    /\ \E out \in {getCachedRestaurants(localCache[d], location, radiusInMeters, now,
                                         NoFailure)} :
          /\ localCache' = [localCache EXCEPT ![d] = out.store]
          /\ last' = [op |-> "get", dev |-> d, location |-> location,
                      radius |-> radiusInMeters, ret |-> out.ret,
                      before |-> localCache[d][getCacheKey(location, radiusInMeters)]]
    /\ UNCHANGED <<now, supabase, apiKey, cache, sharedBlacklist, localBlacklist, proc,
                   quant>>

CacheRestaurants(d, location, radiusInMeters, restaurants) ==
    /\ localCache' = [localCache EXCEPT
                        ![d] = cacheRestaurants(localCache[d], location, radiusInMeters,
                                                restaurants, now, NoFailure)]
    /\ last' = [op |-> "put", dev |-> d, location |-> location, radius |-> radiusInMeters,
                restaurants |-> restaurants]
    /\ UNCHANGED <<now, supabase, apiKey, cache, sharedBlacklist, localBlacklist, proc,
                   quant>>

\* The device's storage hands back a damaged string for a stored entry.
DamageEntry(d, k) ==
    /\ localCache[d][k].exists
    /\ localCache' = [localCache EXCEPT ![d][k] = Unparsable]
    /\ last' = [op |-> "damage", dev |-> d]
    /\ UNCHANGED <<now, supabase, apiKey, cache, sharedBlacklist, localBlacklist, proc,
                   quant>>

NextLocal ==
    \/ TickFetch
    \/ \E l \in LocalLocations, r \in LocalRadii : GetCachedRestaurants("A", l, r)
    \/ \E l \in LocalLocations, r \in LocalRadii, rs \in LocalLists :
          CacheRestaurants("A", l, r, rs)
    \/ \E k \in WideKeys : DamageEntry("A", k)

SpecLocal == InitLocal /\ [][NextLocal]_vars

-----------------------------------------------------------------------------
(* SharedCacheService calls whose store requests may fail one by one         *)
(* (SpecDegrade)                                                             *)

GetSharedCacheFailing(location, radiusInMeters, failSelect) ==
    /\ \E read \in {getSharedCache(cache, supabase, location, radiusInMeters, now,
                                    [NoFailure EXCEPT !.sharedCache = failSelect])} :
          /\ cache' = read.cache
          /\ last' = [op |-> "getShared", id |-> cacheId(location, radiusInMeters),
                      failSelect |-> failSelect, ret |-> read.ret]
    /\ UNCHANGED <<now, supabase, apiKey, localCache, sharedBlacklist, localBlacklist,
                   proc, quant>>

SetSharedCacheFailing(location, radiusInMeters, restaurants, failSelect, failUpsert) ==
    /\ cache' = setSharedCacheRequests(cache, supabase, location, radiusInMeters,
                                       restaurants, now, failSelect, failUpsert)
    /\ last' = [op |-> "setShared", id |-> cacheId(location, radiusInMeters),
                failSelect |-> failSelect, failUpsert |-> failUpsert,
                pre |-> selectRow(cache, location, radiusInMeters),
                restaurants |-> restaurants]
    /\ UNCHANGED <<now, supabase, apiKey, localCache, sharedBlacklist, localBlacklist,
                   proc, quant>>

NextDegrade ==
    \/ Tick
    \/ \E l \in CellLocations, r \in Radii, fs \in BOOLEAN : GetSharedCacheFailing(l, r, fs)
    \/ \E l \in CellLocations, r \in Radii, rs \in ProviderLists, fs, fu \in BOOLEAN :
          SetSharedCacheFailing(l, r, rs, fs, fu)

SpecDegrade == Init /\ [][NextDegrade]_vars

-----------------------------------------------------------------------------
(* One fetchFreshRestaurants call of device A (SpecFresh) *)

\* Radii the settings allow (1 km to 30 km), on both sides of the two radius
\* limits of fetchFreshRestaurants.
FreshRadii == {3000, 5000, 8000, 20000, 30000}
FreshKeys == {getCacheKey(LocA, r) : r \in FreshRadii}
FreshCacheIds == {cacheId(LocA, r) : r \in FreshRadii}
FreshLists == {[i \in 1..Len(is) |-> [id |-> is[i], v |-> "new"]] :
                 is \in {q \in SeqsUpTo(Ids, MaxLen) : \A i, j \in 1..Len(q) : q[i] = q[j] => i = j}}
SecondLists == {rs \in FreshLists : Len(rs) <= 1}
SeenSets == {{}, {1}, {1, 2}, {3}}
MaxResultsValues == {1, 2}

\* The device has no local entry or the placeholder list stored at time 0 under
\* one key; the shared blacklist holds any set of ids.
InitFresh ==
    /\ now = 0
    /\ supabase = TRUE
    /\ apiKey \in BOOLEAN
    /\ cache = [id \in FreshCacheIds |-> NoRow]
    /\ \E e \in {NoEntry, [exists |-> TRUE, timestamp |-> 0, restaurants |-> mockRestaurants]} :
          localCache = [d \in Devices |->
                          [k \in FreshKeys |-> IF k = getCacheKey(LocA, 5000) THEN e ELSE NoEntry]]
    /\ sharedBlacklist \in [Ids -> 0..1]
    /\ localBlacklist = [d \in Devices |-> <<>>]
    /\ proc = [d \in Devices |-> IdleProc]
    /\ last = [op |-> "init"]
    /\ quant = NoQuant

FetchFreshRestaurants(d, location, radiusInMeters, maxResults, seenRestaurantIds, provided1, provided2) ==
    /\ proc[d].calls = 0
    /\ \E bl \in {getBlacklist(sharedBlacklist, localBlacklist[d], supabase, NoFailure)} :
       \E out \in {fetchFreshRestaurants(localCache[d], cache, supabase, apiKey, bl,
                                         location, radiusInMeters, maxResults,
                                         seenRestaurantIds, provided1, provided2, now,
                                         NoFailure)} :
           /\ localCache' = [localCache EXCEPT ![d] = out.store]
           /\ cache' = out.cache
           /\ \E ret \in shuffleArray(out.list) :
                 last' = [op |-> "fresh", dev |-> d, radius |-> radiusInMeters,
                          maxResults |-> maxResults, seen |-> seenRestaurantIds,
                          path |-> out.path, attempts |-> out.attempts,
                          blacklisted |-> bl, ret |-> ret]
    /\ proc' = [proc EXCEPT ![d].calls = 1]
    /\ UNCHANGED <<now, supabase, apiKey, sharedBlacklist, localBlacklist, quant>>

NextFresh ==
    \/ TickFetch
    \/ \E r \in FreshRadii, m \in MaxResultsValues, seen \in SeenSets,
          p1 \in FreshLists, p2 \in SecondLists :
          FetchFreshRestaurants("A", LocA, r, m, seen, p1, p2)

SpecFresh == InitFresh /\ [][NextFresh]_vars

-----------------------------------------------------------------------------
(* Device A fetching and attaching images to places it has cached (SpecImage) *)

UpdateRestaurantImage(d, restaurantId, location, radiusInMeters) ==
    /\ \E out \in {updateRestaurantImage(localCache[d], cache, supabase, restaurantId,
                                         location, radiusInMeters, now, NoFailure)} :
          /\ localCache' = [localCache EXCEPT ![d] = out.store]
          /\ cache' = out.cache
          /\ last' = [op |-> "image", dev |-> d, restaurantId |-> restaurantId,
                      location |-> location, radius |-> radiusInMeters, ret |-> out.ret,
                      preRow |-> selectRow(cache, location, radiusInMeters)]
    /\ UNCHANGED <<now, supabase, apiKey, sharedBlacklist, localBlacklist, proc, quant>>

NextImage ==
    \/ TickFetch
    \/ \E f \in BOOLEAN, rs \in ProviderLists :
          FetchNearbyRestaurants("A", LocA, 5000, f, rs, NoFailure)
    \/ \E i \in Ids : UpdateRestaurantImage("A", i, LocA, 5000)

SpecImage == InitFetch /\ [][NextImage]_vars

-----------------------------------------------------------------------------
(* Claims about SharedCacheService, sequential calls (Spec) *)

LastRow == cache[last.id]
LastPut == last.op = "set" /\ supabase
PutOnLiveBucket ==
    LastPut /\ last.pre.exists /\ now - last.pre.updated_at <= SHARED_CACHE_DURATION

\* C1: after a put, every stored record whose id is also in the incoming list is
\* the incoming record (the merge is right-biased).
C1_RightBiased ==
    LastPut =>
        \A i \in 1..Len(LastRow.restaurants) :
            LastRow.restaurants[i].id \in IdsOf(last.restaurants)
                => LastRow.restaurants[i] \in ElemsOf(last.restaurants)

\* C2: after a put into a present, non-expired bucket B with incoming list P the
\* stored ids are exactly ids(B) \cup ids(P).
C2_UnionOfIds ==
    PutOnLiveBucket =>
        IdsOf(LastRow.restaurants) = IdsOf(last.pre.restaurants) \cup IdsOf(last.restaurants)

C2_Witness ==
    /\ PutOnLiveBucket
    /\ IdsOf(last.pre.restaurants) = {1, 2}
    /\ IdsOf(last.restaurants) = {2, 3}
    /\ IdsOf(LastRow.restaurants) = {1, 2, 3}

\* C3: the contributor counter is 1 after the first write to an empty bucket and
\* existing.contributors + 1 after every later put within the TTL.
C3_ContributorsCount ==
    LastPut =>
        /\ ~last.pre.exists => LastRow.contributors = 1
        /\ PutOnLiveBucket => LastRow.contributors = last.pre.contributors + 1

\* C4: the Place ids inside one shared bucket are pairwise distinct.
C4_UniqueIdsInBucket ==
    \A id \in CacheIds : NoDuplicateIds(cache[id].restaurants)

\* C10: getSharedCache on a bucket older than the shared TTL returns null and
\* deletes the row; on a bucket of age at most the TTL it returns the stored
\* list and leaves the row as it was.
C10_GetExpiry ==
    (last.op = "get" /\ supabase /\ last.pre.exists) =>
        IF now - last.pre.updated_at > SHARED_CACHE_DURATION
        THEN last.ret = Null /\ ~LastRow.exists
        ELSE last.ret = Some(last.pre.restaurants) /\ LastRow = last.pre

C10_Witness ==
    /\ last.op = "get" /\ supabase /\ last.pre.exists
    /\ Len(last.pre.restaurants) > 0
    /\ now - last.pre.updated_at > SHARED_CACHE_DURATION
    /\ last.ret = Null
    /\ ~LastRow.exists

PutOnExpiredBucket ==
    LastPut /\ last.pre.exists /\ now - last.pre.updated_at > SHARED_CACHE_DURATION

\* C11: a put that lands on a present bucket older than the shared TTL keeps the
\* old bucket's Places in the stored result and increments its contributor
\* counter.
C11_ExpiredBaseMerged ==
    PutOnExpiredBucket =>
        /\ IdsOf(last.pre.restaurants) \subseteq IdsOf(LastRow.restaurants)
        /\ LastRow.contributors = last.pre.contributors + 1

-----------------------------------------------------------------------------
(* Claims about interleaved setSharedCache calls (SpecConc) *)

Quiescent == \A d \in Devices : proc[d].pc \in {"idle", "done"}

\* The record one writer builds from the base it read and its own list.
WriterRecord(base, restaurants, t) ==
    LET merged == mergeRestaurants(base, restaurants)
    IN  [exists |-> TRUE, restaurants |-> merged.restaurants,
         contributors |-> merged.contributors, updated_at |-> t]

\* C5: under interleaved read and upsert steps of two devices every change of a
\* bucket is a delete or the whole record of one writer, and once both calls
\* are over the bucket is the merge of the base the last committer read with
\* that committer's list, holding every id of both.
C5_LastCommitterWins ==
    /\ [][\A id \in CacheIds :
            cache'[id] # cache[id] =>
                \/ ~cache'[id].exists
                \/ \E d \in Devices :
                      /\ proc[d].pc = "upsert" /\ proc'[d].pc = "done" /\ ProcId(d) = id
                      /\ cache'[id] = WriterRecord(proc[d].existingData,
                                                   proc[d].restaurants, now)]_vars
    /\ []((Quiescent /\ last.op = "upsert") =>
            /\ cache[last.id] = WriterRecord(last.base, last.restaurants, last.t)
            /\ IdsOf(last.base.list) \cup IdsOf(last.restaurants)
                   \subseteq IdsOf(cache[last.id].restaurants))

\* Both writers read the same non-empty base, and the id only the first committer
\* contributed is gone from the final bucket.
C5_Witness ==
    /\ Quiescent /\ last.op = "upsert" /\ last.base.present /\ Len(last.base.list) > 0
    /\ \E d \in Devices \ {last.dev} :
          /\ proc[d].committed /\ ProcId(d) = last.id
          /\ proc[d].existingData = last.base
          /\ ~(IdsOf(proc[d].restaurants) \subseteq IdsOf(cache[last.id].restaurants))

\* C36: a bucket whose updated_at is within the shared lifetime is never
\* deleted: whatever the interleaving of one device's check-then-delete with
\* another device's upsert to the same key, a delete removes only an expired
\* row.
C36_OnlyExpiredRowsDeleted ==
    [][\A id \in CacheIds :
          (cache[id].exists /\ ~cache'[id].exists) => isExpired(cache[id], now)]_vars

-----------------------------------------------------------------------------
(* Claims about getCacheGrid (SpecGrid) *)

HalfStep == gridSize \div 2
Abs(x) == IF x < 0 THEN -x ELSE x

\* x lies strictly within half a grid step of the grid point g * gridSize
NearGridPoint(x, g) == g * gridSize - HalfStep < x /\ x < g * gridSize + HalfStep
SameGridPoint(x, y) ==
    \E g \in {x \div gridSize, x \div gridSize + 1} : NearGridPoint(x, g) /\ NearGridPoint(y, g)

\* C9 as stated: two coordinates within half a grid step of each other on both
\* axes, with the same requested radius, get the identical grid key.
C9_CloseCoordinatesSameKey ==
    (/\ quant.phase = "out"
     /\ quant.radiusA = quant.radiusB
     /\ Abs(quant.a.latitude - quant.b.latitude) <= HalfStep
     /\ Abs(quant.a.longitude - quant.b.longitude) <= HalfStep)
        => quant.gridA = quant.gridB

\* C9 amended: two coordinates strictly within half a grid step of the same grid
\* point on both axes, with the same requested radius, get the identical grid key.
C9_SameGridPointSameKey ==
    (/\ quant.phase = "out"
     /\ quant.radiusA = quant.radiusB
     /\ SameGridPoint(quant.a.latitude, quant.b.latitude)
     /\ SameGridPoint(quant.a.longitude, quant.b.longitude))
        => quant.gridA = quant.gridB

C9_Witness ==
    /\ quant.phase = "out"
    /\ quant.radiusA = quant.radiusB
    /\ quant.a.latitude # quant.b.latitude /\ quant.a.longitude # quant.b.longitude
    /\ SameGridPoint(quant.a.latitude, quant.b.latitude)
    /\ SameGridPoint(quant.a.longitude, quant.b.longitude)
    /\ quant.gridA = quant.gridB

\* The tiers of the radius and the tier a request belongs to: the smallest one
\* that is not below the request, the largest one for requests beyond all.
RadiusTiers == {3000, 5000, 8000, 10000}
Largest(S) == CHOOSE x \in S : \A y \in S : y <= x
Smallest(S) == CHOOSE x \in S : \A y \in S : x <= y
TierOf(radius) ==
    IF \E t \in RadiusTiers : t >= radius
    THEN Smallest({t \in RadiusTiers : t >= radius})
    ELSE Largest(RadiusTiers)

\* C30: getCacheGrid gives a request the smallest of the tiers 3000, 5000,
\* 8000, 10000 that is not below its radius, and 10000 when the radius is above
\* all of them; two requests of one tier get the same normalizedRadius.
C30_RadiusTier ==
    quant.phase = "out" =>
        /\ quant.gridA.normalizedRadius = TierOf(quant.radiusA)
        /\ quant.gridB.normalizedRadius = TierOf(quant.radiusB)
        /\ TierOf(quant.radiusA) = TierOf(quant.radiusB) =>
              quant.gridA.normalizedRadius = quant.gridB.normalizedRadius
C30_Witness ==
    /\ quant.phase = "out"
    /\ quant.radiusA = 3001 /\ quant.radiusB = 5000
    /\ quant.gridA.normalizedRadius = 5000
    /\ quant.gridB.normalizedRadius = 5000

-----------------------------------------------------------------------------
(* Claims about fetchNearbyRestaurants (SpecFetch) *)

LastFetch == last.op = "fetch"
Called(name) == \E i \in 1..Len(last.events) : last.events[i] = name

\* The caches as they stood when the fetch began.
EntryValid(entry) == entry.exists /\ now - entry.timestamp <= CACHE_DURATION
RowValid(row) ==
    supabase /\ row.exists /\ now - row.updated_at <= SHARED_CACHE_DURATION
             /\ Len(row.restaurants) > 0
FetchedRow == last.preCache[cacheId(last.location, last.radius)]

\* C6: every list a fetch returns has been through the blacklist filter, so it
\* holds no id that was blacklisted for the device at that time.
C6_ReturnedListFiltered ==
    LastFetch => \A i \in 1..Len(last.ret) : last.ret[i].id \notin last.blacklisted

\* C7: without forceRefresh the tiers are consulted in the order local, shared,
\* provider, a valid local entry ending the fetch before the shared read and a
\* non-empty shared hit before the provider call; with forceRefresh no cache is
\* read before the provider call.
C7_TierOrder ==
    LastFetch =>
        /\ (~last.forceRefresh /\ EntryValid(last.preEntry)) =>
              /\ last.path = "local"
              /\ ~Called("getSharedCache") /\ ~Called("setSharedCache")
              /\ ~Called("fetchFromGeoapify")
        /\ (~last.forceRefresh /\ ~EntryValid(last.preEntry) /\ RowValid(FetchedRow)) =>
              /\ last.path = "shared"
              /\ SubSeq(last.events, 1, 2) = <<"getCachedRestaurants", "getSharedCache">>
              /\ ~Called("fetchFromGeoapify")
        /\ (~last.forceRefresh /\ Called("fetchFromGeoapify")) =>
              /\ ~EntryValid(last.preEntry) /\ ~RowValid(FetchedRow)
              /\ SubSeq(last.events, 1, 3) =
                    <<"getCachedRestaurants", "getSharedCache", "fetchFromGeoapify">>
        /\ last.forceRefresh =>
              IF Called("fetchFromGeoapify") THEN last.events[1] = "fetchFromGeoapify"
              ELSE last.events = <<>>

C7_Witness ==
    /\ LastFetch /\ ~last.forceRefresh
    /\ ~EntryValid(last.preEntry) /\ RowValid(FetchedRow)
    /\ last.path = "shared" /\ apiKey
    /\ Len(last.ret) > 0

\* Device B fetches without forceRefresh at `location`, radius 5000, with no local
\* entry, while the bucket of device A's cell (37.7749, -122.4194) holds places.
SecondDeviceFetch(location) ==
    /\ LastFetch /\ last.dev = "B" /\ last.location = location /\ last.radius = 5000
    /\ ~last.forceRefresh /\ ~last.preEntry.exists
    /\ RowValid(last.preCache[cacheId(LocA, 5000)])

ServedFromBucketOfA ==
    /\ last.path = "shared"
    /\ ~Called("fetchFromGeoapify")
    /\ ElemsOf(last.ret) =
          {r \in ElemsOf(last.preCache[cacheId(LocA, 5000)].restaurants) :
              r.id \notin last.blacklisted}

\* C8 as stated: device B at (37.7755, -122.4190) is served A's places from the
\* shared cache, with no provider call.
C8_SharedHitAtLocB == SecondDeviceFetch(LocB) => ServedFromBucketOfA

\* C8 amended: device B at (37.7742, -122.4190), a coordinate of A's grid cell, is
\* served A's places (less the ids blacklisted for B) from the shared cache, with
\* no provider call.
C8_SharedHitAtLocC == SecondDeviceFetch(LocC) => ServedFromBucketOfA

C8_Witness ==
    /\ SecondDeviceFetch(LocC)
    /\ ServedFromBucketOfA
    /\ Len(last.ret) > 0
    /\ apiKey

\* A forced fetch with a configured provider that returns no place, while the
\* device holds a valid local entry for the key.
ForcedEmptyProvider ==
    /\ LastFetch /\ last.forceRefresh /\ apiKey /\ Len(last.provided) = 0
    /\ EntryValid(last.preEntry)

Unlisted(list) == SelectSeq(list, LAMBDA r : r.id \notin last.blacklisted)

\* C14: with forceRefresh, a configured provider that returns zero results and a
\* valid local entry, the fetch returns exactly the locally cached places minus
\* the blacklisted ids, the local entry being read only after the provider call.
C14_ForcedFallbackToLocal ==
    ForcedEmptyProvider =>
        /\ last.events = <<"fetchFromGeoapify", "getCachedRestaurants">>
        /\ ElemsOf(last.ret) = ElemsOf(Unlisted(last.preEntry.restaurants))
        /\ Len(last.ret) = Len(Unlisted(last.preEntry.restaurants))

C14_Witness ==
    /\ ForcedEmptyProvider
    /\ last.path = "fallbackLocal"
    /\ Len(last.ret) > 0
    /\ IdsOf(last.ret) \cap IdsOf(mockRestaurants) = {}

\* C15: a non-forced fetch that ends at the local or the shared tier, with the
\* later tiers untried, does not return an empty list.
C15_NoEmptyListFromCacheTier ==
    (LastFetch /\ ~last.forceRefresh /\ last.path \in {"local", "shared"})
        => Len(last.ret) > 0

BothTiersMiss ==
    LastFetch /\ ~last.forceRefresh /\ ~EntryValid(last.preEntry) /\ ~RowValid(FetchedRow)

C31_SharedLifetimeLonger ==
    \A d \in Devices, k \in LocalKeys :
       (localCache[d][k].exists /\ now - localCache[d][k].timestamp <= CACHE_DURATION) =>
          now - localCache[d][k].timestamp < SHARED_CACHE_DURATION

-----------------------------------------------------------------------------
(* Claims about the order of two puts (SpecOrder) *)

\* C18: for a bucket and two incoming lists P and Q, put one after the other,
\* the ids in the bucket afterwards are the same whether P or Q went first.
C18_OrderKeepsIds ==
    quant.phase = "order" =>
        IdsOf(quant.PQ.restaurants) = IdsOf(quant.QP.restaurants)

\* A live, non-empty bucket and two lists with different ids: the stored lists
\* differ in order, their ids do not.
C18_Witness ==
    /\ quant.phase = "order"
    /\ quant.base.exists /\ Len(quant.base.restaurants) > 0
    /\ quant.t - quant.base.updated_at <= SHARED_CACHE_DURATION
    /\ IdsOf(quant.P) # {} /\ IdsOf(quant.Q) # {} /\ IdsOf(quant.P) \cap IdsOf(quant.Q) = {}
    /\ IdsOf(quant.P) \cap IdsOf(quant.base.restaurants) = {}
    /\ quant.PQ.restaurants # quant.QP.restaurants
    /\ IdsOf(quant.PQ.restaurants) = IdsOf(quant.QP.restaurants)

-----------------------------------------------------------------------------
(* Claims about filterBlacklistedRestaurants (SpecFilter) *)

\* The items of list whose id is not in S, in the order of list.
RECURSIVE Survivors(_, _)
Survivors(list, S) ==
    IF Len(list) = 0 THEN <<>>
    ELSE IF Head(list).id \in S THEN Survivors(Tail(list), S)
    ELSE <<Head(list)>> \o Survivors(Tail(list), S)

\* The blacklisted ids the two stores hold, and those of them that can be read.
StoredBlacklist ==
    (IF supabase THEN {i \in Ids : quant.sharedBlacklist[i] > 0} ELSE {})
        \cup {quant.localBlacklist[i] : i \in 1..Len(quant.localBlacklist)}
ReadableBlacklist ==
    (IF supabase /\ ~quant.fail.sharedBlacklist
     THEN {i \in Ids : quant.sharedBlacklist[i] > 0} ELSE {})
        \cup (IF quant.fail.localBlacklist THEN {}
             ELSE {quant.localBlacklist[i] : i \in 1..Len(quant.localBlacklist)})

\* C19: filterBlacklistedRestaurants returns exactly the input items whose id is
\* not in the merged blacklist, in their original order and unmodified; with an
\* empty blacklist, or when no blacklist read succeeds, it returns the input.
C19_FilterKeepsOrder ==
    quant.phase = "filter" =>
        /\ quant.out = Survivors(quant.restaurants, ReadableBlacklist)
        /\ (quant.fail = NoFailure =>
                quant.out = Survivors(quant.restaurants, StoredBlacklist))
        /\ (StoredBlacklist = {} => quant.out = quant.restaurants)
        /\ ((quant.fail.sharedBlacklist /\ quant.fail.localBlacklist)
                => quant.out = quant.restaurants)

\* Three places, the middle one blacklisted: the two others come back in order.
C19_Witness ==
    /\ quant.phase = "filter" /\ quant.fail = NoFailure
    /\ Len(quant.restaurants) = 3 /\ Len(quant.out) = 2
    /\ quant.restaurants[2].id \in StoredBlacklist
    /\ quant.out = <<quant.restaurants[1], quant.restaurants[3]>>
    /\ quant.out[1] # quant.out[2]

-----------------------------------------------------------------------------
(* Claims about interleaved reportRestaurant calls (SpecReport) *)

\* C20: under interleaved reportRestaurant calls the reports_count of a shared
\* blacklist entry never decreases; only the administrative removeFromBlacklist
\* takes it down.
C20_ReportsCountMonotonic ==
    [][last'.op # "remove" =>
          \A i \in Ids : sharedBlacklist'[i] >= sharedBlacklist[i]]_vars

\* A report whose lookup found no row and whose insert then met a row of the
\* same id, written by another reporter in between.
InsertMetConflict ==
    /\ last.op = "reportWrite" /\ supabase
    /\ last.existing = 0 /\ last.before > 0

\* C21: the reporter whose insert hits the duplicate-key conflict treats it as an
\* existing entry and increments the counter, so after two near-simultaneous
\* first reports of one id the counter is 2.
C21_ConflictFallsThroughToIncrement ==
    InsertMetConflict => sharedBlacklist[last.restaurantId] = last.before + 1

-----------------------------------------------------------------------------
(* Claims about reports, reads and clearing of the blacklist (SpecBlacklist) *)

LastReport == last.op = "report"
ListedLocally(d, restaurantId) ==
    \E i \in 1..Len(localBlacklist[d]) : localBlacklist[d][i] = restaurantId
SharedReportFailed ==
    /\ LastReport /\ supabase
    /\ \/ last.failStep = "lookup"
       \/ last.failStep = "update" /\ last.existing > 0
       \/ last.failStep = "insert" /\ last.existing = 0

\* C22: after a report made with the shared tier unconfigured, or in which the
\* lookup, the update or the insert failed, the id is in the device's local
\* list, isRestaurantBlacklisted(id) is true and the filter drops the id.
C22_FailedReportListedLocally ==
    (LastReport /\ (~supabase \/ SharedReportFailed)) =>
        /\ ListedLocally(last.dev, last.restaurantId)
        /\ isRestaurantBlacklisted(sharedBlacklist, localBlacklist[last.dev], supabase,
                                   last.restaurantId, NoFailure)
        /\ filterBlacklistedRestaurants(
              <<[id |-> last.restaurantId, v |-> "old"]>>,
              getBlacklist(sharedBlacklist, localBlacklist[last.dev], supabase,
                           NoFailure)) = <<>>
C22_Witness ==
    /\ SharedReportFailed /\ last.failStep = "insert"
    /\ sharedBlacklist[last.restaurantId] = 0
    /\ ListedLocally(last.dev, last.restaurantId)

LastGetBlacklist == last.op = "getBlacklist"
EntriesFrom(list, origin) == {list[i].id : i \in {j \in 1..Len(list) : list[j].from = origin}}

\* C24: with its reads answered, getBlacklist returns each id at most once:
\* every row of the shared table, and a local entry exactly when its id is in
\* the device's local list and not in the shared table; and
\* isRestaurantBlacklisted(id) is true exactly for the ids of that list.
C24_GetBlacklistIsUnion ==
    LastGetBlacklist =>
        /\ NoDuplicateIds(last.ret)
        /\ EntriesFrom(last.ret, "shared") = {i \in Ids : sharedBlacklist[i] > 0}
        /\ EntriesFrom(last.ret, "local") =
              {i \in Ids : ListedLocally(last.dev, i) /\ sharedBlacklist[i] = 0}
        /\ \A i \in Ids :
              isRestaurantBlacklisted(sharedBlacklist, localBlacklist[last.dev], supabase,
                                      i, NoFailure)
              <=> (sharedBlacklist[i] > 0 \/ ListedLocally(last.dev, i))
C24_Witness ==
    /\ LastGetBlacklist
    /\ \E i, j, k \in Ids :
          /\ sharedBlacklist[i] > 0 /\ ListedLocally(last.dev, i)
          /\ sharedBlacklist[j] = 0 /\ ListedLocally(last.dev, j)
          /\ sharedBlacklist[k] = 0 /\ ~ListedLocally(last.dev, k)
          /\ IdsOf(last.ret) = {i, j}
          /\ Len(last.ret) = 2

\* C25: clearLocalBlacklist empties the calling device's local list and leaves
\* the shared blacklist table, the local restaurant caches, the shared
\* restaurant cache and the other device's local list as they were; the ids of
\* the shared table are still reported as blacklisted afterwards.
C25_ClearLocalFrame ==
    [][last'.op = "clearLocal" =>
          /\ localBlacklist'[last'.dev] = <<>>
          /\ \A d \in Devices \ {last'.dev} : localBlacklist'[d] = localBlacklist[d]
          /\ sharedBlacklist' = sharedBlacklist
          /\ localCache' = localCache
          /\ cache' = cache
          /\ \A i \in Ids :
                sharedBlacklist[i] > 0 =>
                   isRestaurantBlacklisted(sharedBlacklist', localBlacklist'[last'.dev],
                                           supabase', i, NoFailure)]_vars
C25_Witness ==
    /\ last.op = "clearLocal"
    /\ Len(last.before) = 2
    /\ localBlacklist[last.dev] = <<>>
    /\ \E d \in Devices : localBlacklist[d] # <<>>
    /\ \E i \in Ids : sharedBlacklist[i] > 0 /\ i = last.before[1]
    /\ \E k \in LocalKeys : localCache[last.dev][k].exists
    /\ \E id \in CacheIds : cache[id] # NoRow

-----------------------------------------------------------------------------
(* Claims about the columns of a reported row (SpecRows) *)

RowsWithId(table, restaurantId) == {r \in table : r.restaurant_id = restaurantId}
Reported == quant.phase = "reported"

\* C23: a shared report of an id already in the table raises that row's
\* reports_count by exactly 1 and sets reported_at to the time of the report,
\* leaves restaurant_name and reason as they were and adds no second row; a
\* report of an absent id creates exactly one row, with reports_count 1.  Rows
\* of other ids are untouched either way.
C23_ReportFrame ==
    Reported =>
        LET old == RowsWithId(quant.before, quant.restaurantId)
            new == RowsWithId(quant.table, quant.restaurantId)
        IN  /\ Cardinality(new) = 1
            /\ quant.table \ new = quant.before \ old
            /\ \A n \in new :
                  /\ n.reported_at = quant.t
                  /\ \A o \in old :
                        /\ n.reports_count = o.reports_count + 1
                        /\ n.restaurant_name = o.restaurant_name
                        /\ n.reason = o.reason
                  /\ old = {} =>
                        n = BlacklistRow(quant.restaurantId, quant.restaurantName,
                                         quant.reason, quant.t, 1)
C23_Witness ==
    /\ Reported
    /\ \E o \in RowsWithId(quant.before, quant.restaurantId) :
          /\ o.restaurant_name # quant.restaurantName
          /\ o.reason # quant.reason
          /\ o.reports_count = 2
    /\ \E n \in RowsWithId(quant.table, quant.restaurantId) : n.reports_count = 3

-----------------------------------------------------------------------------
(* Claims about the local restaurant cache (SpecLocal) *)

LastGet == last.op = "get"
LastKey == getCacheKey(last.location, last.radius)
ReadableBefore == last.before.exists /\ ~IsUnparsable(last.before)
AgeBefore == now - last.before.timestamp

\* C26: getCachedRestaurants returns absent when the key has no entry or the
\* entry is older than the local lifetime, and then no entry is left under the
\* key; an entry within the lifetime is returned and stays as it was.
C26_LocalGetExpiry ==
    LastGet =>
        /\ ~last.before.exists =>
              last.ret = Null /\ localCache[last.dev][LastKey] = NoEntry
        /\ (ReadableBefore /\ AgeBefore > CACHE_DURATION) =>
              last.ret = Null /\ localCache[last.dev][LastKey] = NoEntry
        /\ (ReadableBefore /\ AgeBefore <= CACHE_DURATION) =>
              /\ last.ret = Some(last.before.restaurants)
              /\ localCache[last.dev][LastKey] = last.before
C26_Witness ==
    /\ LastGet /\ ReadableBefore
    /\ AgeBefore = CACHE_DURATION + 1
    /\ last.ret = Null
    /\ \E k \in WideKeys : localCache[last.dev][k].exists

\* C27: cacheRestaurants replaces the entry under the exact key (coordinate
\* rounded to 0.001 degrees, radius as given) by the new list stamped with the
\* current time, whatever was there; a get for a request of the same key at any
\* time within the lifetime returns exactly that list; the entries under every
\* other key are unchanged.
C27_PutThenGet ==
    [][last'.op = "put" =>
          LET d == last'.dev
              key == getCacheKey(last'.location, last'.radius)
          IN  /\ localCache'[d][key] = [exists |-> TRUE, timestamp |-> now',
                                        restaurants |-> last'.restaurants]
              /\ \A k \in WideKeys \ {key} : localCache'[d][k] = localCache[d][k]
              /\ \A l \in LocalLocations, t \in now'..(now' + CACHE_DURATION) :
                    getCacheKey(l, last'.radius) = key =>
                       getCachedRestaurants(localCache'[d], l, last'.radius, t, NoFailure)
                          = [ret |-> Some(last'.restaurants), store |-> localCache'[d]]]_vars
C27_Witness ==
    /\ LastGet /\ last.location = LocD /\ last.radius = 5000
    /\ ReadableBefore /\ AgeBefore = CACHE_DURATION
    /\ last.ret = Some(last.before.restaurants)
    /\ Len(last.before.restaurants) = 2
    /\ localCache["A"][getCacheKey(LocA, 3000)].exists
    /\ ~IsUnparsable(localCache["A"][getCacheKey(LocA, 3000)])
    /\ Len(localCache["A"][getCacheKey(LocA, 3000)].restaurants) = 1

\* C28: when the stored entry cannot be parsed, getCachedRestaurants returns
\* absent and the entry is purged, so that no unparsable entry is left under
\* the key for a later read.
C28_UnparsableEntryPurged ==
    (LastGet /\ IsUnparsable(last.before)) =>
        /\ last.ret = Null
        /\ localCache[last.dev][LastKey] = NoEntry

-----------------------------------------------------------------------------
(* Claims about shared cache calls with failing requests (SpecDegrade) *)

SharedStoreDown(failed) == ~supabase \/ failed

\* C29: with the shared store unconfigured or a request to it failing,
\* getSharedCache returns absent and setSharedCache leaves the bucket as it
\* was.
C29_FailingStoreNoChange ==
    /\ (last.op = "getShared" /\ SharedStoreDown(last.failSelect)) => last.ret = Null
    /\ (last.op = "setShared" /\ SharedStoreDown(last.failSelect \/ last.failUpsert)) =>
          cache[last.id] = last.pre

\* A fetch that got at least one place from the provider, with the device's
\* local storage answering.
ProviderGavePlaces ==
    /\ LastFetch /\ last.path = "provider" /\ Len(last.provided) > 0
    /\ ~last.fail.localCache
FilteredProvided == filterBlacklistedRestaurants(last.provided, last.blacklisted)
\* The table as the fetch left it before its setSharedCache.
TableBeforePut ==
    IF last.forceRefresh THEN last.preCache
    ELSE getSharedCache(last.preCache, supabase, last.location, last.radius, now,
                        last.fail).cache

\* C35: when the provider returns at least one place, the fetch stores the
\* blacklist-filtered list in the local entry of the key, hands the same list
\* to setSharedCache and returns it; when the shared write fails the table is
\* as before and the local entry and the returned list are the same as when
\* it succeeds.
C35_ProviderResultWrittenToBothTiers ==
    ProviderGavePlaces =>
        /\ localCache[last.dev][getCacheKey(last.location, last.radius)] =
              [exists |-> TRUE, timestamp |-> now, restaurants |-> FilteredProvided]
        /\ last.ret \in shuffleArray(FilteredProvided)
        /\ Called("cacheRestaurants") /\ Called("setSharedCache")
        /\ cache = setSharedCache(TableBeforePut, supabase, last.location, last.radius,
                                  FilteredProvided, now, last.fail)
        /\ last.fail.sharedCache => cache = last.preCache
C35_Witness ==
    /\ ProviderGavePlaces /\ supabase
    /\ last.fail.sharedCache
    /\ last.ret = FilteredProvided /\ Len(last.ret) = 1
    /\ \A id \in CacheIds : ~cache[id].exists

-----------------------------------------------------------------------------
(* Claims about fetchFreshRestaurants (SpecFresh) *)

LastFresh == last.op = "fresh"
FromProviderAttempt == LastFresh /\ last.path \in {"attempt1", "attempt2"}

\* C32: a list that fetchFreshRestaurants returns from a provider attempt holds
\* no id of seenRestaurantIds, no blacklisted id, and at most maxResults items.
C32_FreshListUnseenUnlisted ==
    FromProviderAttempt =>
        /\ IdsOf(last.ret) \cap last.seen = {}
        /\ IdsOf(last.ret) \cap last.blacklisted = {}
        /\ \A i \in IdsOf(last.ret) : sharedBlacklist[i] = 0
        /\ Len(last.ret) <= last.maxResults
C32_Witness ==
    /\ FromProviderAttempt /\ last.path = "attempt2"
    /\ last.maxResults = 1 /\ Len(last.ret) = 1
    /\ last.seen # {} /\ last.blacklisted # {}

\* C33: the search radius only expands: each provider request uses a radius
\* that is at least the requested radius and at least the radius of the
\* request before it, and at most three provider requests are made.
C33_RadiusOnlyExpands ==
    LastFresh =>
        /\ Len(last.attempts) <= 3
        /\ \A i \in 1..Len(last.attempts) :
              /\ last.attempts[i] >= last.radius
              /\ i > 1 => last.attempts[i] >= last.attempts[i - 1]

\* A put onto a live bucket whose lookup request failed and whose upsert
\* request was answered.
PutWithFailedLookup ==
    /\ last.op = "setShared" /\ supabase
    /\ last.failSelect /\ ~last.failUpsert
    /\ last.pre.exists /\ ~isExpired(last.pre, now)

\* C37: between expiries the ids of a bucket only grow: a setSharedCache whose
\* read of the existing bucket fails while its upsert succeeds keeps every id
\* the bucket held and does not set the contributor counter back to 1.
C37_FailedLookupKeepsBucket ==
    PutWithFailedLookup =>
        /\ IdsOf(last.pre.restaurants) \subseteq IdsOf(cache[last.id].restaurants)
        /\ cache[last.id].contributors # 1

-----------------------------------------------------------------------------
(* Claims about updateRestaurantImage (SpecImage) *)

HoldsUserImage(list, restaurantId) ==
    \E i \in 1..Len(list) : list[i].id = restaurantId /\ list[i].v = UserContributed

\* C38: after updateRestaurantImage returns true, the local entry of the key
\* and, with the shared tier configured, the bucket of the location both hold
\* the place with the user's image and dataSource 'user-contributed', also
\* when the bucket already had a record of that id.
C38_ImageInBothTiers ==
    (last.op = "image" /\ last.ret /\ supabase) =>
        /\ HoldsUserImage(localCache[last.dev][getCacheKey(last.location, last.radius)]
                             .restaurants, last.restaurantId)
        /\ cache[cacheId(last.location, last.radius)].exists
        /\ HoldsUserImage(cache[cacheId(last.location, last.radius)].restaurants,
                          last.restaurantId)

-----------------------------------------------------------------------------
(* Claims about the write-through of a shared hit (SpecWarm) *)

LastEntry == localCache[last.dev][getCacheKey(last.location, last.radius)]
SameKeyFetchNext ==
    /\ last'.op = "fetch" /\ ~last'.forceRefresh /\ last'.dev = last.dev
    /\ getCacheKey(last'.location, last'.radius) = getCacheKey(last.location, last.radius)

\* C16: after a non-forced fetch served from a non-empty shared hit the local
\* entry of the key holds the filtered shared list with the current time, and
\* a non-forced fetch for the key that follows, or that finds an entry within
\* the local TTL, is served from the local tier with no shared-store read and
\* no provider call.
C16_SharedHitWriteThrough ==
    /\ []((LastFetch /\ last.path = "shared") =>
            LastEntry = [exists |-> TRUE, timestamp |-> now,
                         restaurants |-> Unlisted(FetchedRow.restaurants)])
    /\ [][(LastFetch /\ last.path = "shared" /\ SameKeyFetchNext) =>
            (last'.path = "local" /\ last'.events = <<"getCachedRestaurants">>)]_vars
    /\ []((LastFetch /\ ~last.forceRefresh /\ EntryValid(last.preEntry)) =>
            (last.path = "local" /\ last.events = <<"getCachedRestaurants">>))

\* With no provider key the entry can only come from a shared hit; it is read
\* back one time unit later.
C16_Witness ==
    /\ LastFetch /\ ~apiKey /\ last.path = "local"
    /\ last.preEntry.exists /\ last.preEntry.timestamp < now
    /\ Len(last.preEntry.restaurants) > 0
    /\ Len(last.ret) > 0

-----------------------------------------------------------------------------
(* Claims about fetchNearbyRestaurants under failures (SpecFail) *)

AllFail == [provider |-> TRUE, sharedCache |-> TRUE, localCache |-> TRUE,
            sharedBlacklist |-> TRUE, localBlacklist |-> TRUE]

AllTiersFail ==
    /\ LastFetch /\ ~last.forceRefresh /\ apiKey /\ supabase
    /\ last.fail.provider /\ last.fail.sharedCache /\ ~last.preEntry.exists

\* The placeholder records whose id is not in the blacklist the fetch read.
UnlistedPlaceholders == {r \in ElemsOf(mockRestaurants) : r.id \notin last.blacklisted}

ReturnsFilteredPlaceholders ==
    /\ ElemsOf(last.ret) = UnlistedPlaceholders
    /\ Len(last.ret) = Cardinality(UnlistedPlaceholders)

\* C13 as stated: when the provider call fails, the shared store fails and the
\* local cache is empty, a non-forced fetch returns the placeholder dataset
\* filtered by the blacklist, and that result is non-empty.
C13_PlaceholderNonEmpty ==
    AllTiersFail => ReturnsFilteredPlaceholders /\ Len(last.ret) > 0

\* C13 amended: in that case the fetch returns the placeholder dataset filtered
\* by the blacklist, which is empty exactly when every placeholder id is
\* blacklisted.
C13_PlaceholderFiltered ==
    AllTiersFail =>
        /\ ReturnsFilteredPlaceholders
        /\ Len(last.ret) = 0 <=> IdsOf(mockRestaurants) \subseteq last.blacklisted

C13_Witness ==
    /\ AllTiersFail /\ ReturnsFilteredPlaceholders
    /\ Len(last.ret) = 1 /\ last.path = "mock"

====
